---- MODULE Spec2Model ----
(***************************************************************************)
(* Model of src/daily.ts: the daily-challenge fetcher in its two           *)
(* iterations, the function-based script (lines 1-638, here "fn") and the  *)
(* class-based script (lines 640-1244, here "cls").                        *)
(*                                                                         *)
(* A JavaScript string is a sequence of one-character strings, so that     *)
(* trimming, splitting, searching and replacing are computed as the code   *)
(* computes them.                                                          *)
(***************************************************************************)
EXTENDS Integers, Sequences, FiniteSets, TLC

(***************************************************************************)
(* String primitives (String.prototype methods used by the source)         *)
(***************************************************************************)

\* the characters \s matches among those the model uses
WhiteSpace == {" ", "\n", "\t"}

UpperCase == <<"A","B","C","D","E","F","G","H","I","J","K","L","M",
               "N","O","P","Q","R","S","T","U","V","W","X","Y","Z">>

LowerCase == <<"a","b","c","d","e","f","g","h","i","j","k","l","m",
               "n","o","p","q","r","s","t","u","v","w","x","y","z">>

Digits == {"0","1","2","3","4","5","6","7","8","9"}

\* one character of str.toLowerCase()
LowerChar(c) ==
    IF \E i \in 1..26 : UpperCase[i] = c
    THEN LowerCase[CHOOSE i \in 1..26 : UpperCase[i] = c]
    ELSE c

\* str.toLowerCase()
toLowerCase(str) ==
    CHOOSE r \in { [i \in 1..Len(s) |-> LowerChar(s[i])] : s \in {str} } : TRUE

\* does pat occur in s at position i
MatchAt(s, i, pat) ==
    /\ i >= 1
    /\ i + Len(pat) - 1 <= Len(s)
    /\ \A k \in 1..Len(pat) : s[i + k - 1] = pat[k]

\* str.startsWith(pat)
startsWith(s, pat) == MatchAt(s, 1, pat)

\* str.includes(pat)
includes(s, pat) == \E i \in 1..Len(s) : MatchAt(s, i, pat)

\* str.trim()
trim(str) ==
    CHOOSE r \in {
        IF \A i \in 1..Len(s) : s[i] \in WhiteSpace
        THEN << >>
        ELSE LET a == CHOOSE i \in 1..Len(s) :
                          /\ s[i] \notin WhiteSpace
                          /\ \A j \in 1..(i-1) : s[j] \in WhiteSpace
                 b == CHOOSE i \in 1..Len(s) :
                          /\ s[i] \notin WhiteSpace
                          /\ \A j \in (i+1)..Len(s) : s[j] \in WhiteSpace
             IN  SubSeq(s, a, b)
        : s \in {str} } : TRUE

\* str.replace(/pat/g, rep) for a literal pattern: leftmost matches, not overlapping
RECURSIVE replaceFrom(_, _, _, _)
replaceFrom(s, i, pat, rep) ==
    IF i > Len(s) THEN << >>
    ELSE IF MatchAt(s, i, pat)
         THEN rep \o replaceFrom(s, i + Len(pat), pat, rep)
         ELSE <<s[i]>> \o replaceFrom(s, i + 1, pat, rep)

replaceAll(str, pat, rep) ==
    CHOOSE r \in { replaceFrom(s, 1, pat, rep) : s \in {str} } : TRUE

\* str.split("\n"): always at least one piece
RECURSIVE splitFrom(_, _, _)
splitFrom(s, i, cur) ==
    IF i > Len(s) THEN <<cur>>
    ELSE IF s[i] = "\n"
         THEN <<cur>> \o splitFrom(s, i + 1, << >>)
         ELSE splitFrom(s, i + 1, Append(cur, s[i]))

splitLines(str) ==
    CHOOSE r \in { splitFrom(s, 1, << >>) : s \in {str} } : TRUE

\* pieces.join(sep)
RECURSIVE joinWith(_, _)
joinWith(pieces, sep) ==
    IF Len(pieces) = 0 THEN << >>
    ELSE IF Len(pieces) = 1 THEN pieces[1]
         ELSE pieces[1] \o sep \o joinWith(Tail(pieces), sep)

(***************************************************************************)
(* Text normalizer                                                         *)
(***************************************************************************)

\* .replace(/\s+/g, "-"): every maximal run of whitespace becomes one hyphen
RECURSIVE hyphenateFrom(_, _)
hyphenateFrom(s, i) ==
    IF i > Len(s) THEN << >>
    ELSE IF s[i] \in WhiteSpace
         THEN IF i > 1 /\ s[i-1] \in WhiteSpace
              THEN hyphenateFrom(s, i + 1)
              ELSE <<"-">> \o hyphenateFrom(s, i + 1)
         ELSE <<s[i]>> \o hyphenateFrom(s, i + 1)

\* mutant: toKebabCase without its last replacement
toKebabCase_unfiltered(str) ==
    CHOOSE r \in { hyphenateFrom(s, 1) : s \in {toLowerCase(str)} } : TRUE

\* the characters [a-z0-9-] keeps
KebabChars == {LowerCase[i] : i \in 1..26} \cup Digits \cup {"-"}

toKebabCase(str) ==
    CHOOSE r \in { SelectSeq(hyphenateFrom(s, 1), LAMBDA c : c \in KebabChars) :
                       s \in {toLowerCase(str)} } : TRUE

\* .replace(/<[^>]+>/g, ""): a match starts at a "<" that is followed by at least
\* one character other than ">" and later by a ">"; it ends at the first such ">"
RECURSIVE stripTagsFrom(_, _)
stripTagsFrom(s, i) ==
    IF i > Len(s) THEN << >>
    ELSE IF /\ s[i] = "<"
            /\ i + 1 <= Len(s)
            /\ s[i+1] # ">"
            /\ \E j \in (i+2)..Len(s) : s[j] = ">"
         THEN CHOOSE r \in { stripTagsFrom(s, j + 1) :
                                 j \in { CHOOSE j \in (i+2)..Len(s) :
                                             /\ s[j] = ">"
                                             /\ \A k \in (i+2)..(j-1) : s[k] # ">" } } : TRUE
         ELSE <<s[i]>> \o stripTagsFrom(s, i + 1)

\* the chain of entity replacements shared by htmlToText and htmlToComment
decodeEntities(s) ==
    CHOOSE r \in
      { replaceAll(s5, <<"&","a","m","p",";">>, <<"&">>) : s5 \in
      { replaceAll(s4, <<"&","#","3","9",";">>, <<"'">>) : s4 \in
      { replaceAll(s3, <<"&","q","u","o","t",";">>, <<"\"">>) : s3 \in
      { replaceAll(s2, <<"&","g","t",";">>, <<">">>) : s2 \in
      { replaceAll(s1, <<"&","l","t",";">>, <<"<">>) : s1 \in
      { replaceAll(s,  <<"&","n","b","s","p",";">>, <<" ">>) } } } } } } : TRUE

htmlToText(html) ==
    CHOOSE r \in { trim(text) : text \in {decodeEntities(stripTagsFrom(html, 1))} } : TRUE

(***************************************************************************)
(* CONFIG: the language catalog                                            *)
(***************************************************************************)
L_python == <<"p","y","t","h","o","n">>
L_typescript == <<"t","y","p","e","s","c","r","i","p","t">>
L_javascript == <<"j","a","v","a","s","c","r","i","p","t">>
L_java == <<"j","a","v","a">>
L_cpp == <<"c","p","p">>
L_c == <<"c">>
L_csharp == <<"c","s","h","a","r","p">>
L_dart == <<"d","a","r","t">>
L_php == <<"p","h","p">>
L_go == <<"g","o">>
L_rust == <<"r","u","s","t">>
L_ruby == <<"r","u","b","y">>
L_swift == <<"s","w","i","f","t">>
L_kotlin == <<"k","o","t","l","i","n">>

\* CONFIG.LANGUAGE_EXTENSIONS in insertion order (the order of Object.entries)
LANGUAGE_EXTENSIONS ==
    << <<L_python, <<"p","y">>>>,
       <<L_typescript, <<"t","s">>>>,
       <<L_javascript, <<"j","s">>>>,
       <<L_java, <<"j","a","v","a">>>>,
       <<L_cpp, <<"c","p","p">>>>,
       <<L_c, <<"c">>>>,
       <<L_csharp, <<"c","s">>>>,
       <<L_dart, <<"d","a","r","t">>>>,
       <<L_php, <<"p","h","p">>>>,
       <<L_go, <<"g","o">>>>,
       <<L_rust, <<"r","s">>>>,
       <<L_ruby, <<"r","b">>>>,
       <<L_swift, <<"s","w","i","f","t">>>>,
       <<L_kotlin, <<"k","t">>>> >>

NumLanguages == Len(LANGUAGE_EXTENSIONS)

LangIdx == 1..NumLanguages

LangKey(i) == LANGUAGE_EXTENSIONS[i][1]

LangExt(i) == LANGUAGE_EXTENSIONS[i][2]

BlockOpen == <<"/","*">>

BlockClose == <<"*","/">>

TripleQuote == <<"\"","\"","\"">>

RubyBegin == <<"=","b","e","g","i","n">>

RubyEnd == <<"=","e","n","d">>

\* CONFIG.COMMENT_STYLES[language] || ["/*", "*/"]
COMMENT_STYLES(language) ==
    IF language = L_python THEN <<TripleQuote, TripleQuote>>
    ELSE IF language = L_ruby THEN <<RubyBegin, RubyEnd>>
    ELSE <<BlockOpen, BlockClose>>

(***************************************************************************)
(* File materializer: pure parts                                           *)
(***************************************************************************)

NL == <<"\n">>

\* mutant: FileManager.formatProblemFile with the text left untrimmed
FileManager_formatProblemFile_untrimmed(language, problemContent, code) ==
    LET start == COMMENT_STYLES(language)[1]
        end   == COMMENT_STYLES(language)[2]
    IN  start \o NL \o decodeEntities(stripTagsFrom(problemContent, 1)) \o NL
              \o end \o NL \o NL \o code

\* FileManager.formatProblemFile
FileManager_formatProblemFile(language, problemContent, code) ==
    LET start == COMMENT_STYLES(language)[1]
        end   == COMMENT_STYLES(language)[2]
    IN  start \o NL \o htmlToText(problemContent) \o NL \o end \o NL \o NL \o code

\* formatProblemFile of the function-based script (its own commentMap, same entries)
formatProblemFile(language, problemContent, code) ==
    LET text  == decodeEntities(stripTagsFrom(problemContent, 1))
        start == COMMENT_STYLES(language)[1]
        end   == COMMENT_STYLES(language)[2]
    IN  start \o NL \o trim(text) \o NL \o end \o NL \o NL \o code

\* mutant: the scan never leaves a block comment once it is in one
RECURSIVE scanLines_noClose(_, _, _)
scanLines_noClose(lines, i, inBlockComment) ==
    IF i > Len(lines) THEN FALSE
    ELSE CHOOSE r \in {
         LET opened == inBlockComment \/ includes(trimmed, BlockOpen)
         IN  IF trimmed = << >> THEN scanLines_noClose(lines, i + 1, inBlockComment)
             ELSE IF opened
                  THEN scanLines_noClose(lines, i + 1, TRUE)
                  ELSE IF \/ startsWith(trimmed, <<"/","/">>)
                          \/ startsWith(trimmed, <<"#">>)
                          \/ startsWith(trimmed, RubyBegin)
                          \/ startsWith(trimmed, RubyEnd)
                          \/ trimmed = TripleQuote
                       THEN scanLines_noClose(lines, i + 1, FALSE)
                       ELSE TRUE
         : trimmed \in {trim(lines[i])} } : TRUE

\* the loop of FileManager.hasNonCommentContent from line i on, inBlockComment as given
RECURSIVE scanLines(_, _, _)
scanLines(lines, i, inBlockComment) ==
    IF i > Len(lines) THEN FALSE
    ELSE CHOOSE r \in {
         LET opened == inBlockComment \/ includes(trimmed, BlockOpen)
         IN  IF trimmed = << >> THEN scanLines(lines, i + 1, inBlockComment)
             ELSE IF opened
                  THEN scanLines(lines, i + 1, ~includes(trimmed, BlockClose))
                  ELSE IF \/ startsWith(trimmed, <<"/","/">>)
                          \/ startsWith(trimmed, <<"#">>)
                          \/ startsWith(trimmed, RubyBegin)
                          \/ startsWith(trimmed, RubyEnd)
                          \/ trimmed = TripleQuote
                       THEN scanLines(lines, i + 1, FALSE)
                       ELSE TRUE
         : trimmed \in {trim(lines[i])} } : TRUE

\* mutant: hasNonCommentContent with the scan that never leaves a block comment
hasNonCommentContent_noClose(content) ==
    CHOOSE r \in { scanLines_noClose(lines, 1, FALSE) : lines \in {splitLines(content)} } : TRUE

\* FileManager.hasNonCommentContent on the content read from the file
hasNonCommentContent(content) ==
    CHOOSE r \in { scanLines(lines, 1, FALSE) : lines \in {splitLines(content)} } : TRUE

\* hasContent of the function-based script on the content read from the file
hasContent(content) ==
    LET kept == SelectSeq(splitLines(content), LAMBDA line :
                    /\ ~startsWith(trim(line), BlockOpen)
                    /\ ~startsWith(trim(line), BlockClose)
                    /\ ~startsWith(trim(line), <<"/","/">>)
                    /\ Len(trim(line)) > 0)
    IN  Len(trim(joinWith(kept, << >>))) > 0

\* mutant: getFileName with the hyphenated name for every language
getFileName_hyphens(i, questionId, kebabTitle) ==
    questionId \o <<"-">> \o kebabTitle \o <<".">> \o LangExt(i)

\* FileManager.getFileName (the same expression is inlined in the function-based script)
getFileName(i, questionId, kebabTitle) ==
    IF LangKey(i) = L_dart
    THEN questionId \o <<"_">> \o replaceAll(kebabTitle, <<"-">>, <<"_">>)
             \o <<".">> \o LangExt(i)
    ELSE questionId \o <<"-">> \o kebabTitle \o <<".">> \o LangExt(i)

\* path.join(language, difficulty.toLowerCase())
dirPath(i, difficulty) == LangKey(i) \o <<"/">> \o toLowerCase(difficulty)

\* path.join(dirPath, fileName)
filePath(i, details) ==
    dirPath(i, details.difficulty) \o <<"/">>
        \o getFileName(i, details.questionId, toKebabCase(details.title))

(***************************************************************************)
(* The remote service: the problems it knows, keyed by titleSlug           *)
(***************************************************************************)

\* a problem as the endpoint's questionOfToday / questionContent /
\* questionEditorData / questionData queries return its fields
P_trap ==
    [ questionId   |-> <<"4","2">>,
      title        |-> <<"T","r","a","p","p","i","n","g"," ","R","a","i","n"," ","W","a","t","e","r">>,
      titleSlug    |-> <<"t","r","a","p","p","i","n","g","-","r","a","i","n","-","w","a","t","e","r">>,
      difficulty   |-> <<"H","a","r","d">>,
      content      |-> <<"<","p",">","T","r","a","p"," ","/","*"," ","&","a","m","p",";"," ","s","u","m","<","/","p",">","\n">>,
      codeSnippets |-> << [lang |-> <<"P","y","t","h","o","n">>, langSlug |-> L_python, code |-> <<"p","a","s","s">>],
                          [lang |-> <<"C","+","+">>, langSlug |-> L_cpp, code |-> <<"i","n","t"," ","f","(",")",";">>],
                          [lang |-> <<"J","a","v","a","S","c","r","i","p","t">>, langSlug |-> L_javascript, code |-> <<"/","/"," ","T","O","D","O">>],
                          [lang |-> <<"T","y","p","e","S","c","r","i","p","t">>, langSlug |-> L_typescript, code |-> <<"/","*"," ","T"," ","*","/"," ","f","(",")">>],
                          [lang |-> <<"D","a","r","t">>, langSlug |-> L_dart, code |-> << >>],
                          [lang |-> <<"E","r","l","a","n","g">>, langSlug |-> <<"e","r","l","a","n","g">>, code |-> <<"f","(",")"," ","-",">"," ","o","k",".">>] >> ]

P_two ==
    [ questionId   |-> <<"1">>,
      title        |-> <<"T","w","o"," "," ","S","u","m","!">>,
      titleSlug    |-> <<"t","w","o","-","s","u","m">>,
      difficulty   |-> <<"E","a","s","y">>,
      content      |-> <<"<","p",">","A","d","d"," ","&","l","t",";","b","&","g","t",";","<","/","p",">">>,
      codeSnippets |-> << [lang |-> <<"C">>, langSlug |-> L_c, code |-> <<"#","i","n","c","l","u","d","e"," ","<","a",">">>],
                          [lang |-> <<"K","o","t","l","i","n">>, langSlug |-> L_kotlin, code |-> <<"f","u","n"," ","f","(",")">>] >> ]

Problems == {P_trap, P_two}

\* the answer of a question(titleSlug: ...) query: the problem, or nothing
Question(titleSlug) ==
    IF \E p \in Problems : p.titleSlug = titleSlug
    THEN <<CHOOSE p \in Problems : p.titleSlug = titleSlug>>
    ELSE << >>

\* how one request to the endpoint can end: a 2xx answer with data, a non-2xx answer
\* or timeout (axios rejects), a 2xx answer with an errors list and no data, and a
\* 2xx answer with an errors list beside the data
Responses == {"ok", "http_error", "errors_nodata", "errors_data"}

(***************************************************************************)
(* The rendered listing page the browser fallback inspects                 *)
(***************************************************************************)

ProblemsHref == <<"/","p","r","o","b","l","e","m","s","/">>

\* an anchor of the page: its href, the class of the span nested in it (empty: no
\* span), its own class, and whether it is the first child of its parent
Anchor(titleSlug, spanClass, anchorClass, firstChild) ==
    [ href       |-> ProblemsHref \o titleSlug \o (IF titleSlug = << >> THEN << >> ELSE <<"/">>),
      spanClass  |-> spanClass,
      class      |-> anchorClass,
      firstChild |-> firstChild ]

OtherProblem(p) == CHOOSE q \in Problems : q # p

\* the pages the listing can render to when problem p is today's: the usual one
\* (today's anchor marked, in the calendar), one with no marker at all, an empty
\* one, one whose marker has another shade, one outside the calendar markup, and
\* one whose marked anchor has no slug
Pages(p) ==
    << << Anchor(OtherProblem(p).titleSlug, << >>, <<"h","-","8"," ","w","-","8">>, TRUE),
          Anchor(p.titleSlug, <<"b","g","-","g","r","e","e","n","-","s">>, <<"h","-","8"," ","w","-","8">>, FALSE) >>,
       << Anchor(OtherProblem(p).titleSlug, << >>, <<"h","-","8"," ","w","-","8">>, TRUE),
          Anchor(p.titleSlug, << >>, <<"h","-","8"," ","w","-","8">>, FALSE) >>,
       << >>,
       << Anchor(p.titleSlug, <<"b","g","-","g","r","e","e","n","-","5","0","0">>, <<"h","-","8"," ","w","-","8">>, FALSE) >>,
       << Anchor(p.titleSlug, <<"b","g","-","g","r","e","e","n","-","s">>, <<"p","x","-","2">>, FALSE) >>,
       << Anchor(<< >>, <<"b","g","-","g","r","e","e","n","-","s">>, <<"h","-","8"," ","w","-","8">>, FALSE) >> >>

\* href.match(/\/problems\/([^/]+)/): the captured group, or nothing
hrefSlug(href) ==
    LET rest == SubSeq(href, Len(ProblemsHref) + 1, Len(href))
        stop == IF \E i \in 1..Len(rest) : rest[i] = "/"
                THEN CHOOSE i \in 1..Len(rest) :
                         rest[i] = "/" /\ \A j \in 1..(i-1) : rest[j] # "/"
                ELSE Len(rest) + 1
    IN  IF startsWith(href, ProblemsHref) /\ stop > 1
        THEN <<SubSeq(rest, 1, stop - 1)>>
        ELSE << >>

\* the first anchor of the page, in document order, that satisfies Test
FirstAnchor(page, Test(_)) ==
    IF \E i \in 1..Len(page) : Test(page[i])
    THEN <<page[CHOOSE i \in 1..Len(page) :
                    Test(page[i]) /\ \A j \in 1..(i-1) : ~Test(page[j])]>>
    ELSE << >>

\* the function PuppeteerScraper.getDailyChallenge evaluates in the page
PuppeteerScraper_evaluate(page) ==
    LET marked == FirstAnchor(page, LAMBDA a : includes(a.spanClass, <<"b","g","-","g","r","e","e","n">>))
        first  == FirstAnchor(page, LAMBDA a : a.firstChild)
        el     == IF marked # << >> THEN marked ELSE first
    IN  IF el = << >> THEN << >> ELSE hrefSlug(el[1].href)

\* the function getDailyLeetcodeChallengeWithPuppeteer evaluates in the page
evaluate(page) ==
    LET marked == FirstAnchor(page, LAMBDA a : includes(a.spanClass, <<"b","g","-","g","r","e","e","n","-","s">>))
    IN  IF marked = << >> THEN << >> ELSE hrefSlug(marked[1].href)

\* page.waitForSelector('[href^="/problems/"]') finds an element
PuppeteerScraper_selectorFound(page) == Len(page) > 0

\* page.waitForSelector('[href^="/problems/"][class*="h-8 w-8"]') finds an element
selectorFound(page) == \E i \in 1..Len(page) : includes(page[i].class, <<"h","-","8"," ","w","-","8">>)

(***************************************************************************)
(* Bounds of the exploration                                               *)
(***************************************************************************)

\* how many external calls may fail, over all runs of one behaviour
MaxFaults == 2

\* how many times the script is started
MaxRuns == 2

\* how many times the user edits a generated file between runs
MaxEdits == 1

\* the catalog entries whose file may already exist before the first run, may be
\* edited by the user, and whose file operations may fail: one per comment style
\* (python, cpp, ruby) and the one with its own naming rule (dart)
PreLangs == {1, 5, 12}

FaultLangs == {5, 8}

\* a file that holds a solution
SolutionFile == <<"r","e","t","u","r","n"," ","1",";">>

\* what the file of catalog entry i can hold before the first run: a solution,
\* whitespace only, and comments of the entry's language: a line comment, and a
\* block comment alone; for cpp also a preprocessor line and code after a block
\* comment on one line
FilePool(i) ==
    {SolutionFile, <<" ","\n","\n">>} \cup
    ( IF LangKey(i) = L_python
      THEN { <<"#"," ","n","o","t","e">>, <<"\"","\"","\"","\n","n","o","t","e","\n","\"","\"","\"","\n">> }
      ELSE IF LangKey(i) = L_ruby
      THEN { <<"#"," ","n","o","t","e">>, <<"=","b","e","g","i","n","\n","n","o","t","e","\n","=","e","n","d","\n">> }
      ELSE { <<"/","/"," ","n","o","t","e">>, <<"/","*","\n","n","o","t","e","\n","*","/","\n">>, <<"#","d","e","f","i","n","e"," ","N"," ","1">>, <<"/","*"," ","c"," ","*","/"," ","x"," ","="," ","1",";">> } )

\* the line the user adds to a generated file
SolutionLine == <<"r","e","t","u","r","n"," ","2",";">>

\* how long a title given to toKebabCase may be
MaxTitleLen == 3

\* how many pieces a markup given to htmlToText may be made of
MaxPieces == 3

\* how many lines a file given to the comment scanner may have
MaxLines == 3

\* the characters of the titles: letters of both cases, a digit, blanks of two
\* kinds, a hyphen and punctuation
TitleChars == {"A", "b", "1", " ", "\t", "-", "!"}

\* the titles given to toKebabCase
Titles == UNION { [1..n -> TitleChars] : n \in 0..MaxTitleLen }

\* the pieces of the markups: text, a blank, an opening and a closing tag, an
\* empty tag, and a tag nested in a tag
MarkupPieces == { <<"x">>, <<" ">>, <<"<","b",">">>, <<"<","/","b",">">>, <<"<",">">>, <<"<","i","<","b",">",">">> }

\* the markups given to htmlToText: none holds a named entity, and every "<" and
\* ">" of them belongs to a tag
Markups ==
    { joinWith(ps, << >>) : ps \in UNION { [1..n -> MarkupPieces] : n \in 0..MaxPieces } }

\* the lines of the files given to the comment scanner
ScanPool ==
    { << >>, <<"x"," ","="," ","1",";">>, <<"/","/"," ","n">>, <<"#"," ","n">>, <<"/","*">>, <<"*","/">>, <<"/","*"," ","c"," ","*","/">>,
      <<"/","*"," ","c"," ","*","/"," ","x"," ","="," ","1",";">>, <<"x"," ","="," ","1",";"," ","/","*"," ","c">>, <<"c"," ","*","/"," ","x"," ","="," ","1",";">> }

\* the files given to the comment scanner
Contents ==
    { joinWith(ls, NL) : ls \in UNION { [1..n -> ScanPool] : n \in 1..MaxLines } }

\* the languages given to formatProblemFile: one per comment style of the catalog,
\* and one the catalog does not know
FormatLanguages == { <<"p","y","t","h","o","n">>, <<"r","u","b","y">>, <<"c","p","p">>, <<"d","a","r","t">>, <<"e","r","l","a","n","g">> }

\* the problem statements given to formatProblemFile
FormatContents ==
    { << >>, <<" ","a"," "," ">>, <<"<","b",">","x","<","/","b",">"," ","&","l","t",";","y","&","g","t",";">>, <<"<","p",">","T","r","a","p"," ","/","*"," ","&","a","m","p",";"," ","s","u","m","<","/","p",">","\n">> }

\* the snippets given to formatProblemFile: none, one line, and lines with blanks
\* around them
FormatCodes == { << >>, <<"p","a","s","s">>, <<" "," ","i","n","t"," ","f","(",")",";","\n">> }

\* the identities given to the path rule
PathIds == { <<"1">>, <<"4","2">> }

PathTitles == { <<"T","w","o"," ","S","u","m">>, <<"T","r","a","p","p","i","n","g"," ","R","a","i","n"," ","W","a","t","e","r">>, <<"3","S","u","m"," "," ","C","l","o","s","e","s","t","!">>, <<"L","R","U","-","C","a","c","h","e">> }

PathDifficulties == { <<"E","a","s","y">>, <<"M","e","d","i","u","m">>, <<"H","a","r","d">> }

(***************************************************************************)
(* State                                                                   *)
(***************************************************************************)

VARIABLES
    script,         \* "fn": the function-based script, "cls": the class-based one
    today,          \* the problem the remote service features today
    fs,             \* the files on disk: path |-> content
    pc,             \* where the running script is
    limits,         \* how many runs, faults and edits the behaviour may have
    runs,           \* starts of the script so far
    faults,         \* failures of external calls so far, over all runs
    edits,          \* user edits so far
    csrfToken,      \* GraphQLClient.csrfToken / csrfToken: acquired or not
    dailyChallenge, \* the identity the run works on: << >> or <<identity>>
    identityBy,     \* the acquisition paths that resolved an identity in this run
    slug,           \* what the browser fallback extracted: << >> or <<titleSlug>>
    rendered,       \* the page the browser rendered in this run: << >> or <<page>>
    details,        \* ProblemDetails: << >> or <<details>>
    inflight,       \* the queries of the pending Promise.all: name |-> outcome
    langIdx,        \* the catalog entry the materialization loop is at
    result,         \* FileOperationResult: created, updated, skipped paths
    browser,        \* the rendering session: "null", "open" or "closed"
    thrown,         \* an exception is passing through a finally block
    events,         \* what the run did so far, in order
    written,        \* the paths written in this run
    fsStart,        \* the files as they were when the run started
    prevFsStart,    \* the files as they were when the previous run started
    prevResult,     \* the result of the previous run
    exitCode,       \* -1 while the process runs, then its exit code
    probe           \* a call of one pure function: its arguments and its result

vars == << script, today, fs, pc, limits, runs, faults, edits, csrfToken,
           dailyChallenge, identityBy, slug, rendered, details, inflight, langIdx, result,
           browser, thrown, events, written, fsStart, prevFsStart, prevResult,
           exitCode, probe >>

\* the parts of the state that only the start of a run and the user change
world == << script, today, limits, runs, edits, fsStart, prevFsStart, prevResult,
            probe >>

EmptyFs == [p \in {} |-> << >>]

NoResult == [created |-> << >>, updated |-> << >>, skipped |-> << >>]

NoQueries == [q \in {} |-> "pending"]

\* DailyChallenge: the identity fields of a problem
Identity(p) ==
    [ questionId |-> p.questionId, title |-> p.title,
      titleSlug  |-> p.titleSlug,  difficulty |-> p.difficulty ]

\* ProblemDetails as getProblemDetails builds it from the two answers
ProblemDetails(p, titleSlug) ==
    [ content    |-> p.content,    codeSnippets |-> p.codeSnippets,
      difficulty |-> p.difficulty, questionId   |-> p.questionId,
      title      |-> p.title,      titleSlug    |-> titleSlug ]

\* details.codeSnippets.find(s => s.langSlug === language)?.code || ""
snippetCode(d, language) ==
    LET found == SelectSeq(d.codeSnippets, LAMBDA s : s.langSlug = language)
    IN  IF Len(found) = 0 THEN << >> ELSE found[1].code

\* a failure of an external call uses up one of the failures still to come
Spend(outcome, normal) ==
    /\ outcome # normal => faults < limits.faults
    /\ faults' = IF outcome = normal THEN faults ELSE faults + 1

\* no pure function is being called
NoProbe ==
    [ op |-> "none", stage |-> "out", lang |-> 0, id |-> << >>, difficulty |-> << >>,
      text |-> << >>, language |-> << >>, code |-> << >>,
      out |-> << >>, again |-> << >>, flag |-> FALSE ]

InitCommon ==
    /\ script \in {"fn", "cls"}
    /\ today \in Problems
    /\ pc = "idle"
    /\ runs = 0
    /\ faults = 0
    /\ edits = 0
    /\ csrfToken = FALSE
    /\ dailyChallenge = << >>
    /\ identityBy = << >>
    /\ slug = << >>
    /\ rendered = << >>
    /\ details = << >>
    /\ inflight = NoQueries
    /\ langIdx = 0
    /\ result = NoResult
    /\ browser = "null"
    /\ thrown = FALSE
    /\ events = << >>
    /\ written = {}
    /\ exitCode = -1

\* one file of today's problem exists, in one of the PreLangs, or none does
PreFiles(Pool(_)) ==
    {EmptyFs} \cup
    { [p \in {filePath(i, Identity(today))} |-> c] : <<i, c>> \in
          UNION { {i} \X Pool(i) : i \in PreLangs } }

\* before an orchestration run a file holds a solution
SolutionOnly(i) == {SolutionFile}

\* orchestration: one start of the script, every failure combination
Init ==
    /\ InitCommon
    /\ fs \in PreFiles(SolutionOnly)
    /\ fsStart = fs
    /\ prevFsStart = fs
    /\ prevResult = NoResult
    /\ probe = NoProbe
    /\ limits = [runs |-> MaxRuns - 1, faults |-> MaxFaults, edits |-> MaxEdits]

\* materialization: repeated starts over varied files, fewer failures
InitFiles ==
    /\ InitCommon
    /\ fs \in PreFiles(FilePool)
    /\ fsStart = fs
    /\ prevFsStart = fs
    /\ prevResult = NoResult
    /\ probe = NoProbe
    /\ limits = [runs |-> MaxRuns, faults |-> MaxFaults - 1, edits |-> MaxEdits]

(***************************************************************************)
(* The class-based script (lines 640-1244)                                 *)
(***************************************************************************)

\* what the start of a run resets
StartRun(first) ==
    /\ pc \in {"idle", "done", "fatal"}
    /\ runs < limits.runs
    /\ runs' = runs + 1
    /\ pc' = first
    /\ csrfToken' = FALSE
    /\ dailyChallenge' = << >>
    /\ identityBy' = << >>
    /\ slug' = << >>
    /\ rendered' = << >>
    /\ details' = << >>
    /\ inflight' = NoQueries
    /\ langIdx' = 0
    /\ result' = NoResult
    /\ browser' = "null"
    /\ thrown' = FALSE
    /\ events' = << >>
    /\ written' = {}
    /\ fsStart' = fs
    /\ prevFsStart' = fsStart
    /\ prevResult' = result
    /\ exitCode' = -1
    /\ UNCHANGED << script, today, fs, limits, faults, edits, probe >>

\* the CLI entry: new LeetCodeDailyChallenge(), app.run()
LeetCodeDailyChallenge_run ==
    /\ script = "cls"
    /\ StartRun("api_init")

\* mutant: the outer catch of run() logs and does not rethrow
Fatal_swallowed ==
    /\ pc' = "done"
    /\ exitCode' = 0

\* mutant: the catch of the CLI entry logs and does not call process.exit(1)
Fatal_noExit ==
    /\ pc' = "fatal"
    /\ exitCode' = 0

\* app.run().catch: the rejection of run() ends the process with exit code 1
Fatal ==
    /\ pc' = "fatal"
    /\ exitCode' = 1

\* mutant: a failed API acquisition is tried again
run_catch_retry(stage) == IF stage = "api" THEN "api_init" ELSE "fatal"

\* mutant: every failure turns to Puppeteer
run_catch_any(stage) == "pup_init"

\* where run() goes when a stage throws: the inner try (lines 1194-1203) turns a
\* failure of the API acquisition into the Puppeteer attempt; anything else reaches
\* the outer catch, which logs and rethrows
run_catch(stage) == IF stage = "api" THEN "pup_init" ELSE "fatal"

\* GraphQLClient.initialize, called by getDailyChallengeViaAPI; any failure is the
\* apiError that run() catches
GraphQLClient_initialize ==
    /\ script = "cls"
    /\ pc = "api_init"
    /\ \E r \in {"ok", "http_error", "no_token"} :
          /\ Spend(r, "ok")
          /\ csrfToken' = (r = "ok")
          /\ pc' = IF r = "ok" THEN "api_query" ELSE run_catch("api")
    /\ events' = Append(events, "token")
    /\ UNCHANGED << world, fs, dailyChallenge, identityBy, slug, rendered, details, inflight,
                    langIdx, result, browser, thrown, written, exitCode >>

\* GraphQLClient.query: whether a response makes the query throw
GraphQLClient_queryThrows(r) == r # "ok"

\* getDailyChallengeViaAPI after initialize: the questionOfToday query
getDailyChallengeViaAPI ==
    /\ script = "cls"
    /\ pc = "api_query"
    /\ \E r \in Responses :
          /\ Spend(r, "ok")
          /\ IF GraphQLClient_queryThrows(r)
             THEN /\ pc' = run_catch("api")
                  /\ UNCHANGED << dailyChallenge, identityBy >>
             ELSE /\ pc' = "details"
                  /\ dailyChallenge' = <<Identity(today)>>
                  /\ identityBy' = Append(identityBy, "api")
    /\ events' = Append(events, "questionOfToday")
    /\ UNCHANGED << world, fs, csrfToken, slug, rendered, details, inflight, langIdx, result,
                    browser, thrown, written, exitCode >>

\* PuppeteerScraper.initialize, inside the try of getDailyChallengeViaPuppeteer
PuppeteerScraper_initialize ==
    /\ script = "cls"
    /\ pc = "pup_init"
    /\ \E r \in {"ok", "launch_failed"} :
          /\ Spend(r, "ok")
          /\ browser' = IF r = "ok" THEN "open" ELSE browser
          /\ thrown' = (r # "ok")
          /\ pc' = IF r = "ok" THEN "pup_get" ELSE "pup_cleanup"
    /\ events' = Append(events, "launch")
    /\ UNCHANGED << world, fs, csrfToken, dailyChallenge, identityBy, slug, rendered, details,
                    inflight, langIdx, result, written, exitCode >>

\* PuppeteerScraper.getDailyChallenge: newPage, goto, waitForSelector, evaluate; the
\* page is closed by its finally block
PuppeteerScraper_getDailyChallenge ==
    /\ script = "cls"
    /\ pc = "pup_get"
    /\ \E k \in 1..Len(Pages(today)), r \in {"ok", "newpage_failed", "timeout"} :
          LET page      == Pages(today)[k]
              titleSlug == IF r = "ok" /\ PuppeteerScraper_selectorFound(page)
                           THEN PuppeteerScraper_evaluate(page)
                           ELSE << >>
          IN  /\ Spend(<<k, r>>, <<1, "ok">>)
              /\ slug' = titleSlug
              /\ rendered' = IF r = "ok" THEN <<page>> ELSE << >>
              /\ thrown' = (titleSlug = << >>)
              /\ pc' = IF titleSlug = << >> THEN "pup_cleanup" ELSE "pup_details"
    /\ events' = Append(events, "extract")
    /\ UNCHANGED << world, fs, csrfToken, dailyChallenge, identityBy, details, inflight,
                    langIdx, result, browser, written, exitCode >>

\* getProblemDetails up to its Promise.all: both queries are issued
getProblemDetails ==
    /\ script = "cls"
    /\ pc \in {"pup_details", "details"}
    /\ inflight' = [q \in {"questionContent", "questionEditorData"} |-> "pending"]
    /\ pc' = IF pc = "details" THEN "details_wait" ELSE "pup_details_wait"
    /\ events' = events \o <<"questionContent", "questionEditorData">>
    /\ UNCHANGED << world, fs, faults, csrfToken, dailyChallenge, identityBy, slug, rendered,
                    details, langIdx, result, browser, thrown, written, exitCode >>

\* one of the issued queries gets its response
GraphQLClient_query ==
    /\ script = "cls"
    /\ pc \in {"pup_details_wait", "details_wait"}
    /\ \E q \in DOMAIN inflight, r \in Responses :
          /\ inflight[q] = "pending"
          /\ Spend(r, "ok")
          /\ inflight' = [inflight EXCEPT ![q] = r]
    /\ UNCHANGED << world, fs, pc, csrfToken, dailyChallenge, identityBy, slug, rendered, details,
                    langIdx, result, browser, thrown, events, written, exitCode >>

\* the Promise.all of getProblemDetails settles: it rejects as soon as one query has
\* thrown, and resolves when both have returned
getProblemDetails_settle ==
    /\ script = "cls"
    /\ pc \in {"pup_details_wait", "details_wait"}
    /\ LET rejected  == \E q \in DOMAIN inflight :
                            /\ inflight[q] # "pending"
                            /\ GraphQLClient_queryThrows(inflight[q])
           resolved  == \A q \in DOMAIN inflight : inflight[q] = "ok"
           titleSlug == IF pc = "details_wait"
                        THEN dailyChallenge[1].titleSlug ELSE slug[1]
           question  == Question(titleSlug)
           failed    == rejected \/ question = << >>
       IN  /\ rejected \/ resolved
           /\ details' = IF failed THEN details
                         ELSE <<ProblemDetails(question[1], titleSlug)>>
           /\ IF pc = "pup_details_wait"
              THEN /\ thrown' = failed
                   /\ pc' = "pup_cleanup"
                   /\ UNCHANGED << langIdx, exitCode >>
              ELSE /\ UNCHANGED thrown
                   /\ IF failed
                      THEN /\ pc' = run_catch("details")
                           /\ exitCode' = IF pc' = "fatal" THEN 1 ELSE exitCode
                           /\ UNCHANGED langIdx
                      ELSE pc' = "files" /\ langIdx' = 1 /\ UNCHANGED exitCode
    /\ inflight' = NoQueries
    /\ UNCHANGED << world, fs, faults, csrfToken, dailyChallenge, identityBy, slug, rendered,
                    result, browser, events, written >>

\* mutant: cleanup follows the try instead of being its finally block, so a failure
\* inside the try leaves the browser as it is
PuppeteerScraper_cleanup_notFinally ==
    /\ script = "cls"
    /\ pc = "pup_cleanup"
    /\ browser' = IF browser = "open" /\ ~thrown THEN "closed" ELSE browser
    /\ thrown' = FALSE
    /\ IF thrown
       THEN Fatal /\ UNCHANGED << dailyChallenge, identityBy >>
       ELSE /\ pc' = "details"
            /\ dailyChallenge' = <<Identity(details[1])>>
            /\ identityBy' = Append(identityBy, "browser")
            /\ UNCHANGED exitCode
    /\ UNCHANGED << world, fs, faults, csrfToken, slug, rendered, details, inflight, langIdx,
                    result, events, written >>

\* the finally block of getDailyChallengeViaPuppeteer: PuppeteerScraper.cleanup,
\* then the return of the identity or the rethrow, which run() does not catch
PuppeteerScraper_cleanup ==
    /\ script = "cls"
    /\ pc = "pup_cleanup"
    /\ browser' = IF browser = "open" THEN "closed" ELSE browser
    /\ thrown' = FALSE
    /\ IF thrown
       THEN Fatal /\ UNCHANGED << dailyChallenge, identityBy >>
       ELSE /\ pc' = "details"
            /\ dailyChallenge' = <<Identity(details[1])>>
            /\ identityBy' = Append(identityBy, "browser")
            /\ UNCHANGED exitCode
    /\ UNCHANGED << world, fs, faults, csrfToken, slug, rendered, details, inflight, langIdx,
                    result, events, written >>

\* fs.writeFile(path, content)
writeFile(files, path, content) ==
    [p \in DOMAIN files \cup {path} |-> IF p = path THEN content ELSE files[p]]

\* mutant: hasNonCommentContent without its catch-all answer: a file that cannot be
\* read is taken to have content
FileManager_hasNonCommentContent_unreadable(files, path, readable) ==
    IF readable THEN hasNonCommentContent(files[path]) ELSE TRUE

\* hasNonCommentContent with its catch: a file that cannot be read has no content
FileManager_hasNonCommentContent(files, path, readable) ==
    IF readable THEN hasNonCommentContent(files[path]) ELSE FALSE

\* the test of line 986: the file is left alone
FileManager_skips(files, path, readable) ==
    path \in DOMAIN files /\ FileManager_hasNonCommentContent(files, path, readable)

\* one iteration of the loop of FileManager.createSolutionFiles, and after the last
\* one the return to run(), which logs the result
FileManager_createSolutionFiles ==
    /\ script = "cls"
    /\ pc = "files"
    /\ \E f \in {"ok", "read_failed", "mkdir_failed", "write_failed"} :
          LET path       == filePath(langIdx, details[1])
              fileExists == path \in DOMAIN fs
              skip       == FileManager_skips(fs, path, f # "read_failed")
              content    == FileManager_formatProblemFile(LangKey(langIdx),
                                details[1].content,
                                snippetCode(details[1], LangKey(langIdx)))
          IN  /\ Spend(f, "ok")
              /\ f # "ok" => langIdx \in FaultLangs
              /\ f = "read_failed" => fileExists
              /\ f \in {"mkdir_failed", "write_failed"} => ~skip
              /\ IF skip
                 THEN /\ result' = [result EXCEPT !.skipped = Append(@, path)]
                      /\ events' = IF f = "read_failed"
                                   THEN Append(events, "read_failed") ELSE events
                      /\ UNCHANGED << fs, written >>
                 ELSE IF f \in {"mkdir_failed", "write_failed"}
                 THEN /\ events' = Append(events, "file_error")
                      /\ UNCHANGED << fs, written, result >>
                 ELSE /\ fs' = writeFile(fs, path, content)
                      /\ written' = written \cup {path}
                      /\ result' = IF fileExists
                                   THEN [result EXCEPT !.updated = Append(@, path)]
                                   ELSE [result EXCEPT !.created = Append(@, path)]
                      /\ events' = IF f = "read_failed"
                                   THEN Append(events, "read_failed") ELSE events
    /\ IF langIdx = NumLanguages
       THEN pc' = "hook" /\ UNCHANGED langIdx
       ELSE langIdx' = langIdx + 1 /\ UNCHANGED pc
    /\ UNCHANGED << world, csrfToken, dailyChallenge, identityBy, slug, rendered, details,
                    inflight, browser, thrown, exitCode >>

\* mutant: the hook is awaited outside the try, so its failure rejects run()
CommandExecutor_execute_uncaught ==
    /\ script = "cls"
    /\ pc = "hook"
    /\ \E r \in {"ok", "spawn_error", "exit_nonzero"} :
          /\ Spend(r, "ok")
          /\ events' = IF r = "ok" THEN Append(events, "hook")
                       ELSE events \o <<"hook", "hook_failed">>
          /\ pc' = IF r = "ok" THEN "done" ELSE "fatal"
          /\ exitCode' = IF r = "ok" THEN 0 ELSE 1
    /\ UNCHANGED << world, fs, csrfToken, dailyChallenge, identityBy, slug, rendered, details,
                    inflight, langIdx, result, browser, thrown, written >>

\* CommandExecutor.execute inside the try of run(): a spawn error or a non-zero
\* exit code rejects, run() catches it and warns; then run() returns
CommandExecutor_execute ==
    /\ script = "cls"
    /\ pc = "hook"
    /\ \E r \in {"ok", "spawn_error", "exit_nonzero"} :
          /\ Spend(r, "ok")
          /\ events' = IF r = "ok" THEN Append(events, "hook")
                       ELSE events \o <<"hook", "hook_failed">>
    /\ pc' = "done"
    /\ exitCode' = 0
    /\ UNCHANGED << world, fs, csrfToken, dailyChallenge, identityBy, slug, rendered, details,
                    inflight, langIdx, result, browser, thrown, written >>

(***************************************************************************)
(* The function-based script (lines 1-638)                                 *)
(***************************************************************************)

\* the CLI entry: run(), which awaits getDailyLeetcodeChallenge()
run ==
    /\ script = "fn"
    /\ StartRun("fn_token")

\* fetchCsrfToken, the first statement of the outer try: any failure is the
\* initialError of the outer catch, which turns to Puppeteer
fetchCsrfToken ==
    /\ script = "fn"
    /\ pc = "fn_token"
    /\ \E r \in {"ok", "http_error", "no_token"} :
          /\ Spend(r, "ok")
          /\ csrfToken' = (r = "ok")
          /\ pc' = IF r = "ok" THEN "fn_today" ELSE "fn_launch"
    /\ events' = Append(events, "token")
    /\ UNCHANGED << world, fs, dailyChallenge, identityBy, slug, rendered, details, inflight,
                    langIdx, result, browser, thrown, written, exitCode >>

\* axios.post followed by response.data.data.<...>: axios rejects a non-2xx answer
\* or a timeout, and reading a field of absent data throws; an errors list beside
\* the data is not looked at
axiosThrows(r) == r \in {"http_error", "errors_nodata"}

\* the questionOfToday query of getDailyLeetcodeChallenge
dailyQuery ==
    /\ script = "fn"
    /\ pc = "fn_today"
    /\ \E r \in Responses :
          /\ Spend(r, "ok")
          /\ IF axiosThrows(r)
             THEN /\ pc' = "fn_launch"
                  /\ UNCHANGED << dailyChallenge, identityBy >>
             ELSE /\ pc' = "fn_content"
                  /\ dailyChallenge' = <<Identity(today)>>
                  /\ identityBy' = Append(identityBy, "api")
    /\ events' = Append(events, "questionOfToday")
    /\ UNCHANGED << world, fs, csrfToken, slug, rendered, details, inflight, langIdx, result,
                    browser, thrown, written, exitCode >>

\* the queries of a Promise.all are issued: two by getDailyLeetcodeChallenge, three
\* by createSolutionFiles(titleSlug)
issueQueries ==
    /\ script = "fn"
    /\ pc \in {"fn_content", "fn_csf"}
    /\ LET names == IF pc = "fn_content"
                    THEN <<"questionContent", "questionEditorData">>
                    ELSE <<"questionContent", "questionEditorData", "questionData">>
       IN  /\ inflight' = [q \in {names[i] : i \in 1..Len(names)} |-> "pending"]
           /\ events' = events \o names
    /\ pc' = IF pc = "fn_content" THEN "fn_content_wait" ELSE "fn_csf_wait"
    /\ UNCHANGED << world, fs, faults, csrfToken, dailyChallenge, identityBy, slug, rendered,
                    details, langIdx, result, browser, thrown, written, exitCode >>

\* one of the issued axios.post calls gets its response
axios_post ==
    /\ script = "fn"
    /\ pc \in {"fn_content_wait", "fn_csf_wait"}
    /\ \E q \in DOMAIN inflight, r \in Responses :
          /\ inflight[q] = "pending"
          /\ Spend(r, "ok")
          /\ inflight' = [inflight EXCEPT ![q] = r]
    /\ UNCHANGED << world, fs, pc, csrfToken, dailyChallenge, identityBy, slug, rendered, details,
                    langIdx, result, browser, thrown, events, written, exitCode >>

\* app.run().catch of the function-based script: "Both API and Puppeteer approaches
\* failed" rejects run(), and the process exits with code 1
BothFailed ==
    /\ pc' = "fatal"
    /\ exitCode' = 1

\* the Promise.all settles and the details are built from the answers. In
\* getDailyLeetcodeChallenge a failure is caught by the outer catch, which turns to
\* Puppeteer; in createSolutionFiles it is rethrown to the inner catch
settleQueries ==
    /\ script = "fn"
    /\ pc \in {"fn_content_wait", "fn_csf_wait"}
    /\ LET rejected  == \E q \in DOMAIN inflight : inflight[q] = "http_error"
           resolved  == \A q \in DOMAIN inflight : inflight[q] # "pending"
           titleSlug == IF pc = "fn_content_wait"
                        THEN dailyChallenge[1].titleSlug ELSE slug[1]
           question  == Question(titleSlug)
           failed    == \/ rejected
                        \/ \E q \in DOMAIN inflight : axiosThrows(inflight[q])
                        \/ question = << >>
       IN  /\ rejected \/ resolved
           /\ details' = IF failed THEN details
                         ELSE <<ProblemDetails(question[1], titleSlug)>>
           /\ IF pc = "fn_content_wait"
              THEN /\ pc' = IF failed THEN "fn_launch" ELSE "fn_files"
                   /\ UNCHANGED << exitCode, dailyChallenge, identityBy >>
              ELSE IF failed
                   THEN BothFailed /\ UNCHANGED << dailyChallenge, identityBy >>
                   ELSE /\ pc' = "fn_csf_files"
                        /\ dailyChallenge' = <<Identity(question[1])>>
                        /\ identityBy' = Append(identityBy, "browser")
                        /\ UNCHANGED exitCode
           /\ langIdx' = IF failed THEN langIdx ELSE 1
    /\ inflight' = NoQueries
    /\ UNCHANGED << world, fs, faults, csrfToken, slug, rendered, result, browser, thrown,
                    events, written >>

\* hasContent with its catch: a file that cannot be read has no content
fileHasContent(files, path, readable) ==
    IF readable THEN hasContent(files[path]) ELSE FALSE

\* the test of lines 536-539: the file is left alone
skips(files, path, readable) ==
    path \in DOMAIN files /\ fileHasContent(files, path, readable)

\* one iteration of the loop of getDailyLeetcodeChallenge (lines 527-564). A failed
\* mkdir or writeFile is not caught in the loop: it reaches the outer catch
materializeLoop ==
    /\ script = "fn"
    /\ pc = "fn_files"
    /\ \E f \in {"ok", "read_failed", "mkdir_failed", "write_failed"} :
          LET path       == filePath(langIdx, details[1])
              fileExists == path \in DOMAIN fs
              skip       == skips(fs, path, f # "read_failed")
              content    == formatProblemFile(LangKey(langIdx), details[1].content,
                                snippetCode(details[1], LangKey(langIdx)))
              threw      == f \in {"mkdir_failed", "write_failed"}
          IN  /\ Spend(f, "ok")
              /\ f # "ok" => langIdx \in FaultLangs
              /\ f = "read_failed" => fileExists
              /\ f = "mkdir_failed" => ~fileExists
              /\ f = "write_failed" => ~skip
              /\ IF skip
                 THEN /\ result' = [result EXCEPT !.skipped = Append(@, path)]
                      /\ events' = IF f = "read_failed"
                                   THEN Append(events, "read_failed") ELSE events
                      /\ UNCHANGED << fs, written >>
                 ELSE IF threw
                 THEN /\ result' = IF fileExists
                                   THEN [result EXCEPT !.updated = Append(@, path)]
                                   ELSE result
                      /\ events' = Append(events, "file_error")
                      /\ UNCHANGED << fs, written >>
                 ELSE /\ fs' = writeFile(fs, path, content)
                      /\ written' = written \cup {path}
                      /\ result' = IF fileExists
                                   THEN [result EXCEPT !.updated = Append(@, path)]
                                   ELSE [result EXCEPT !.created = Append(@, path)]
                      /\ events' = IF f = "read_failed"
                                   THEN Append(events, "read_failed") ELSE events
              /\ IF ~skip /\ threw
                 THEN pc' = "fn_launch" /\ UNCHANGED langIdx
                 ELSE IF langIdx = NumLanguages
                      THEN pc' = "fn_hook" /\ UNCHANGED langIdx
                      ELSE langIdx' = langIdx + 1 /\ UNCHANGED pc
    /\ UNCHANGED << world, csrfToken, dailyChallenge, identityBy, slug, rendered, details,
                    inflight, browser, thrown, exitCode >>

\* executeCommand inside its own try (lines 587-605): a failure is caught and noted
executeCommand ==
    /\ script = "fn"
    /\ pc = "fn_hook"
    /\ \E r \in {"ok", "spawn_error", "exit_nonzero"} :
          /\ Spend(r, "ok")
          /\ events' = IF r = "ok" THEN Append(events, "hook")
                       ELSE events \o <<"hook", "hook_failed">>
    /\ pc' = "done"
    /\ exitCode' = 0
    /\ UNCHANGED << world, fs, csrfToken, dailyChallenge, identityBy, slug, rendered, details,
                    inflight, langIdx, result, browser, thrown, written >>

\* getDailyLeetcodeChallengeWithPuppeteer: puppeteer.launch, before the try
puppeteer_launch ==
    /\ script = "fn"
    /\ pc = "fn_launch"
    /\ \E r \in {"ok", "launch_failed"} :
          /\ Spend(r, "ok")
          /\ IF r = "ok"
             THEN browser' = "open" /\ pc' = "fn_newpage" /\ UNCHANGED exitCode
             ELSE BothFailed /\ UNCHANGED browser
    /\ events' = Append(events, "launch")
    /\ UNCHANGED << world, fs, csrfToken, dailyChallenge, identityBy, slug, rendered, details,
                    inflight, langIdx, result, thrown, written >>

\* getDailyLeetcodeChallengeWithPuppeteer: browser.newPage, still before the try
browser_newPage ==
    /\ script = "fn"
    /\ pc = "fn_newpage"
    /\ \E r \in {"ok", "newpage_failed"} :
          /\ Spend(r, "ok")
          /\ IF r = "ok"
             THEN pc' = "fn_extract" /\ UNCHANGED exitCode
             ELSE BothFailed
    /\ UNCHANGED << world, fs, csrfToken, dailyChallenge, identityBy, slug, rendered, details,
                    inflight, langIdx, result, browser, thrown, events, written >>

\* the try block of getDailyLeetcodeChallengeWithPuppeteer: goto, waitForSelector,
\* evaluate, and the throw when nothing was extracted
getDailyLeetcodeChallengeWithPuppeteer ==
    /\ script = "fn"
    /\ pc = "fn_extract"
    /\ \E k \in 1..Len(Pages(today)), r \in {"ok", "timeout"} :
          LET page      == Pages(today)[k]
              titleSlug == IF r = "ok" /\ selectorFound(page)
                           THEN evaluate(page)
                           ELSE << >>
          IN  /\ Spend(<<k, r>>, <<1, "ok">>)
              /\ slug' = titleSlug
              /\ rendered' = IF r = "ok" THEN <<page>> ELSE << >>
              /\ thrown' = (titleSlug = << >>)
    /\ pc' = "fn_close"
    /\ events' = Append(events, "extract")
    /\ UNCHANGED << world, fs, csrfToken, dailyChallenge, identityBy, details, inflight,
                    langIdx, result, browser, written, exitCode >>

\* the finally block: browser.close, then the return or the rethrow
browser_close ==
    /\ script = "fn"
    /\ pc = "fn_close"
    /\ browser' = "closed"
    /\ thrown' = FALSE
    /\ IF thrown THEN BothFailed ELSE pc' = "fn_csf" /\ UNCHANGED exitCode
    /\ UNCHANGED << world, fs, faults, csrfToken, dailyChallenge, identityBy, slug, rendered,
                    details, inflight, langIdx, result, events, written >>

\* details.codeSnippets.find(s => s.langSlug === language) finds a snippet
snippetFound(d, language) ==
    \E k \in 1..Len(d.codeSnippets) : d.codeSnippets[k].langSlug = language

\* one iteration of the loop of createSolutionFiles(titleSlug) (lines 356-381):
\* mkdir, then the write when a snippet exists, reported as "Created file" whether
\* or not the file was there; failures are caught per language. After the last one
\* the run has succeeded
createSolutionFiles ==
    /\ script = "fn"
    /\ pc = "fn_csf_files"
    /\ \E f \in {"ok", "mkdir_failed", "write_failed"} :
          LET path    == filePath(langIdx, details[1])
              found   == snippetFound(details[1], LangKey(langIdx))
              content == formatProblemFile(LangKey(langIdx), details[1].content,
                             snippetCode(details[1], LangKey(langIdx)))
          IN  /\ Spend(f, "ok")
              /\ f # "ok" => langIdx \in FaultLangs
              /\ f = "write_failed" => found
              /\ IF f # "ok"
                 THEN /\ events' = Append(events, "file_error")
                      /\ UNCHANGED << fs, written, result >>
                 ELSE IF found
                 THEN /\ fs' = writeFile(fs, path, content)
                      /\ written' = written \cup {path}
                      /\ result' = [result EXCEPT !.created = Append(@, path)]
                      /\ UNCHANGED events
                 ELSE UNCHANGED << fs, written, events, result >>
    /\ IF langIdx = NumLanguages
       THEN pc' = "done" /\ exitCode' = 0 /\ UNCHANGED langIdx
       ELSE langIdx' = langIdx + 1 /\ UNCHANGED << pc, exitCode >>
    /\ UNCHANGED << world, csrfToken, dailyChallenge, identityBy, slug, rendered, details,
                    inflight, browser, thrown >>

(***************************************************************************)
(* The user, between runs                                                  *)
(***************************************************************************)

\* the user adds a one-line solution at the end of a file the script wrote
UserEdit ==
    /\ pc \in {"done", "fatal"}
    /\ edits < limits.edits
    /\ edits' = edits + 1
    /\ \E i \in PreLangs :
          LET path == filePath(i, Identity(today))
          IN  /\ path \in DOMAIN fs
              /\ fs' = writeFile(fs, path, fs[path] \o NL \o SolutionLine)
    /\ UNCHANGED << script, today, pc, limits, runs, faults, fsStart, prevFsStart,
                    prevResult, csrfToken, dailyChallenge, identityBy, slug, rendered, details,
                    inflight, langIdx, result, browser, thrown, events, written,
                    exitCode, probe >>

Next ==
    \/ LeetCodeDailyChallenge_run
    \/ GraphQLClient_initialize
    \/ getDailyChallengeViaAPI
    \/ PuppeteerScraper_initialize
    \/ PuppeteerScraper_getDailyChallenge
    \/ getProblemDetails
    \/ GraphQLClient_query
    \/ getProblemDetails_settle
    \/ PuppeteerScraper_cleanup
    \/ FileManager_createSolutionFiles
    \/ CommandExecutor_execute
    \/ run
    \/ fetchCsrfToken
    \/ dailyQuery
    \/ issueQueries
    \/ axios_post
    \/ settleQueries
    \/ materializeLoop
    \/ executeCommand
    \/ puppeteer_launch
    \/ browser_newPage
    \/ getDailyLeetcodeChallengeWithPuppeteer
    \/ browser_close
    \/ createSolutionFiles
    \/ UserEdit

Spec == Init /\ [][Next]_vars

SpecFiles == InitFiles /\ [][Next]_vars

\* the steps of a started run: each is the continuation of an awaited call, which
\* the event loop runs once the call has returned or failed
Step ==
    \/ GraphQLClient_initialize
    \/ getDailyChallengeViaAPI
    \/ PuppeteerScraper_initialize
    \/ PuppeteerScraper_getDailyChallenge
    \/ getProblemDetails
    \/ GraphQLClient_query
    \/ getProblemDetails_settle
    \/ PuppeteerScraper_cleanup
    \/ FileManager_createSolutionFiles
    \/ CommandExecutor_execute
    \/ fetchCsrfToken
    \/ dailyQuery
    \/ issueQueries
    \/ axios_post
    \/ settleQueries
    \/ materializeLoop
    \/ executeCommand
    \/ puppeteer_launch
    \/ browser_newPage
    \/ getDailyLeetcodeChallengeWithPuppeteer
    \/ browser_close
    \/ createSolutionFiles

\* the script is started once and left to run; nobody edits the files
InitLive ==
    /\ InitCommon
    /\ fs \in PreFiles(SolutionOnly)
    /\ fsStart = fs
    /\ prevFsStart = fs
    /\ prevResult = NoResult
    /\ probe = NoProbe
    /\ limits = [runs |-> 1, faults |-> MaxFaults, edits |-> 0]

NextLive ==
    \/ LeetCodeDailyChallenge_run
    \/ run
    \/ Step

\* orchestration where every external call eventually returns or fails
SpecLive == InitLive /\ [][NextLive]_vars /\ WF_vars(Step)

(***************************************************************************)
(* The pure functions, called on their own                                 *)
(***************************************************************************)

\* everything but the call under way
program == << script, today, fs, pc, limits, runs, faults, edits, csrfToken,
              dailyChallenge, identityBy, slug, rendered, details, inflight, langIdx, result,
              browser, thrown, events, written, fsStart, prevFsStart, prevResult,
              exitCode >>

\* a call about to be made: the function and its arguments
Call(op, lang, id, difficulty, text) ==
    [ op |-> op, stage |-> "in", lang |-> lang, id |-> id, difficulty |-> difficulty,
      text |-> text, language |-> << >>, code |-> << >>,
      out |-> << >>, again |-> << >>, flag |-> FALSE ]

\* a call of formatProblemFile about to be made
CallFormat(op, language, problemContent, code) ==
    [ Call(op, 0, << >>, << >>, problemContent) EXCEPT
          !.language = language, !.code = code ]

\* the calls made: toKebabCase on the titles, htmlToText on the markups, the path
\* of every catalog language for the identities, the scanner on the files, and the
\* file template of both scripts
Calls ==
    { CallFormat(x[1], x[2], x[3], x[4]) :
          x \in {"FileManager_formatProblemFile", "formatProblemFile"}
                  \X FormatLanguages \X FormatContents \X FormatCodes } \cup
    { Call("toKebabCase", 0, << >>, << >>, T) : T \in Titles } \cup
    { Call("htmlToText", 0, << >>, << >>, H) : H \in Markups } \cup
    { Call("hasNonCommentContent", 0, << >>, << >>, c) : c \in Contents } \cup
    { Call("filePath", x[1], x[2], x[3], x[4]) :
          x \in LangIdx \X PathIds \X PathDifficulties \X PathTitles }

\* the script is not running; one call is about to be made
InitPure ==
    /\ InitCommon
    /\ script = "cls"
    /\ today = P_two
    /\ fs = EmptyFs
    /\ fsStart = fs
    /\ prevFsStart = fs
    /\ prevResult = NoResult
    /\ limits = [runs |-> 0, faults |-> 0, edits |-> 0]
    /\ probe \in Calls

\* toKebabCase(title)
Call_toKebabCase ==
    /\ probe.op = "toKebabCase"
    /\ probe.stage = "in"
    /\ probe' = [probe EXCEPT !.out = toKebabCase(probe.text), !.stage = "out"]
    /\ UNCHANGED program

\* toKebabCase applied to its own result
Call_toKebabCase_again ==
    /\ probe.op = "toKebabCase"
    /\ probe.stage = "out"
    /\ probe' = [probe EXCEPT !.again = toKebabCase(probe.out), !.stage = "again"]
    /\ UNCHANGED program

\* htmlToText(html)
Call_htmlToText ==
    /\ probe.op = "htmlToText"
    /\ probe.stage = "in"
    /\ probe' = [probe EXCEPT !.out = htmlToText(probe.text), !.stage = "out"]
    /\ UNCHANGED program

\* the scan of FileManager.hasNonCommentContent over the content of a file
Call_hasNonCommentContent ==
    /\ probe.op = "hasNonCommentContent"
    /\ probe.stage = "in"
    /\ probe' = [probe EXCEPT !.flag = hasNonCommentContent(probe.text), !.stage = "out"]
    /\ UNCHANGED program

\* the target path createSolutionFiles computes for a language and an identity
Call_filePath ==
    /\ probe.op = "filePath"
    /\ probe.stage = "in"
    /\ probe' = [probe EXCEPT
                    !.out = filePath(probe.lang,
                                [ questionId |-> probe.id, title |-> probe.text,
                                  difficulty |-> probe.difficulty ]),
                    !.stage = "out"]
    /\ UNCHANGED program

\* FileManager.formatProblemFile(language, problemContent, code)
Call_FileManager_formatProblemFile ==
    /\ probe.op = "FileManager_formatProblemFile"
    /\ probe.stage = "in"
    /\ probe' = [probe EXCEPT
                    !.out = FileManager_formatProblemFile(probe.language, probe.text,
                                                          probe.code),
                    !.stage = "out"]
    /\ UNCHANGED program

\* formatProblemFile(language, problemContent, code) of the function-based script
Call_formatProblemFile ==
    /\ probe.op = "formatProblemFile"
    /\ probe.stage = "in"
    /\ probe' = [probe EXCEPT
                    !.out = formatProblemFile(probe.language, probe.text, probe.code),
                    !.stage = "out"]
    /\ UNCHANGED program

NextPure ==
    \/ Call_FileManager_formatProblemFile
    \/ Call_formatProblemFile
    \/ Call_toKebabCase
    \/ Call_toKebabCase_again
    \/ Call_htmlToText
    \/ Call_hasNonCommentContent
    \/ Call_filePath

SpecPure == InitPure /\ [][NextPure]_vars

(***************************************************************************)
(* Vocabulary of the properties                                            *)
(***************************************************************************)

Range(seq) == {seq[k] : k \in 1..Len(seq)}

Count(seq, e) == Cardinality({k \in 1..Len(seq) : seq[k] = e})

\* str.endsWith(pat)
endsWith(s, pat) == MatchAt(s, Len(s) - Len(pat) + 1, pat)

\* the forms that start a line comment in a language
LineCommentStarts(language) ==
    IF language \in {L_python, L_ruby} THEN {<<"#">>}
    ELSE IF language = L_php THEN {<<"/","/">>, <<"#">>}
    ELSE {<<"/","/">>}

\* Reference reading of "a line that is neither blank nor comment syntax for that
\* language", with the language's own delimiters: is there such a line from line i
\* on. A line is comment syntax when it lies inside the language's block comment,
\* opens or closes it with nothing but comment on the line, or starts with the
\* language's line-comment form
RECURSIVE SubstantiveFrom(_, _, _, _)
SubstantiveFrom(language, lines, i, inBlock) ==
    IF i > Len(lines) THEN FALSE
    ELSE LET trimmed == trim(lines[i])
             start   == COMMENT_STYLES(language)[1]
             end     == COMMENT_STYLES(language)[2]
             opens   == ~inBlock /\ startsWith(trimmed, start)
             body    == IF opens
                        THEN SubSeq(trimmed, Len(start) + 1, Len(trimmed))
                        ELSE trimmed
         IN  IF trimmed = << >> THEN SubstantiveFrom(language, lines, i + 1, inBlock)
             ELSE IF inBlock \/ opens
                  THEN IF ~includes(body, end)
                       THEN SubstantiveFrom(language, lines, i + 1, TRUE)
                       ELSE IF endsWith(body, end)
                            THEN SubstantiveFrom(language, lines, i + 1, FALSE)
                            ELSE TRUE
                  ELSE IF \E c \in LineCommentStarts(language) : startsWith(trimmed, c)
                       THEN SubstantiveFrom(language, lines, i + 1, FALSE)
                       ELSE TRUE

Substantive(language, content) ==
    SubstantiveFrom(language, splitLines(content), 1, FALSE)

\* the path of catalog entry i for the problem the run works on
TargetPath(i) == filePath(i, details[1])

\* the materialization loop has dealt with catalog entry i in this run
Processed(i) ==
    \/ pc \in {"files", "fn_files", "fn_csf_files"} /\ i < langIdx
    \/ pc \in {"hook", "fn_hook", "done"}

\* the same, for the loop that classifies files (all but the loop of the
\* function-based script's createSolutionFiles(titleSlug), which keeps no lists)
Classified(i) ==
    \/ pc \in {"files", "fn_files"} /\ i < langIdx
    \/ pc \in {"hook", "fn_hook"}
    \/ pc = "done" /\ "hook" \in Range(events)

\* no file operation has failed in this run
NoFileFault == Range(events) \cap {"file_error", "read_failed"} = {}

\* the content check of the running script
OwnCheck(content) ==
    IF script = "cls" THEN hasNonCommentContent(content) ELSE hasContent(content)

\* the file materialize generates for a language without template code
CommentBlockOnly(i) ==
    FileManager_formatProblemFile(LangKey(i), details[1].content, << >>)

(***************************************************************************)
(* Properties                                                              *)
(***************************************************************************)

\* C1: in a run without file failures, a catalog language's file is classified
\* Skipped if and only if it existed at the start of the run with at least one
\* line that is neither blank nor comment syntax for that language; in every
\* other case it is written.
C1_SkippedIffSubstantive ==
    \A i \in LangIdx :
        (Classified(i) /\ NoFileFault) =>
            LET path == TargetPath(i)
                pre  == /\ path \in DOMAIN fsStart
                        /\ Substantive(LangKey(i), fsStart[path])
            IN  /\ (path \in Range(result.skipped)) <=> pre
                /\ ~pre => path \in written

\* C2: a file that existed at the start of the run with content the script's own
\* check counts as substantive is never written in that run, on either
\* acquisition path.
C2_SubstantiveNeverWritten ==
    "read_failed" \notin Range(events) =>
        \A p \in written : p \in DOMAIN fsStart => ~OwnCheck(fsStart[p])

\* C3: in the class-based script, for every catalog language, a file that holds
\* only the comment block materialize generates (no template code) is overwritten
\* and reported Updated, not Skipped.
C3_CommentBlockUpdated ==
    script = "cls" =>
        \A i \in LangIdx :
            ( /\ Classified(i) /\ NoFileFault
              /\ TargetPath(i) \in DOMAIN fsStart
              /\ fsStart[TargetPath(i)] = CommentBlockOnly(i) ) =>
                /\ TargetPath(i) \in Range(result.updated)
                /\ TargetPath(i) \notin Range(result.skipped)

\* the second of two runs in succession, the first on an empty directory, with no
\* failure and no edit, has finished materializing
SecondRunDone ==
    /\ script = "cls"
    /\ pc \in {"hook", "done"}
    /\ runs >= 2
    /\ prevFsStart = EmptyFs
    /\ faults = 0
    /\ edits = 0

\* Created by the first run, Skipped and left unchanged by the second
CreatedThenSkipped(i) ==
    /\ TargetPath(i) \in Range(prevResult.created)
    /\ TargetPath(i) \in Range(result.skipped)
    /\ TargetPath(i) \notin written
    /\ fs[TargetPath(i)] = fsStart[TargetPath(i)]

SnippetCounts(i) ==
    /\ hasNonCommentContent(snippetCode(details[1], LangKey(i)))
    /\ \/ COMMENT_STYLES(LangKey(i))[1] = BlockOpen
       \/ ~includes(htmlToText(details[1].content), BlockOpen)

C5_NoSnippetPlaceholder ==
    \A i \in LangIdx :
        (details # << >> /\ ~snippetFound(details[1], LangKey(i)) /\ NoFileFault) =>
            /\ (pc = "done" /\ edits = 0 /\ TargetPath(i) \notin DOMAIN fsStart) =>
                   /\ TargetPath(i) \in written
                   /\ fs[TargetPath(i)] = CommentBlockOnly(i)
            /\ ( /\ Processed(i)
                 /\ TargetPath(i) \in DOMAIN fsStart
                 /\ fsStart[TargetPath(i)] = CommentBlockOnly(i) \o NL \o SolutionLine ) =>
                   TargetPath(i) \notin written

\* the run has ended
Terminated == runs > 0 /\ pc \in {"done", "fatal"}

\* C6: within one run the token fetch and the questionOfToday query are each made
\* at most once, and a run in which the API acquisition failed has launched the
\* browser fallback exactly once by the time it ends.
C6_FallbackOnceNoRetry ==
    /\ Count(events, "token") <= 1
    /\ Count(events, "questionOfToday") <= 1
    /\ Count(events, "launch") <= 1
    /\ (Terminated /\ "api" \notin Range(identityBy)) => Count(events, "launch") = 1

\* C6 witness: a run whose questionOfToday query failed ended in success through
\* the browser fallback
C6_Witness ==
    /\ pc = "done"
    /\ "questionOfToday" \in Range(events)
    /\ identityBy = <<"browser">>
    /\ Count(events, "launch") = 1

\* C7: once the API has returned the identity, the browser fallback is never
\* started in that run.
C7_NoFallbackAfterIdentity ==
    "api" \in Range(identityBy) => "launch" \notin Range(events)

C9_BothFailIsFatal ==
    (Terminated /\ identityBy = << >>) =>
        /\ pc = "fatal"
        /\ exitCode = 1
        /\ written = {}
        /\ "hook" \notin Range(events)
        /\ "launch" \in Range(events)

\* C9 witness: the API failed, the browser was launched and no slug was extracted
C9_Witness ==
    /\ pc = "fatal"
    /\ identityBy = << >>
    /\ browser = "closed"
    /\ "extract" \in Range(events)
    /\ slug = << >>

\* C10: a failed hook is the last thing a run does: the run is Done with exit code
\* 0, nothing was launched after it, and the files written are in place.
C10_HookFailureNotFatal ==
    "hook_failed" \in Range(events) =>
        /\ pc = "done"
        /\ exitCode = 0
        /\ events[Len(events)] = "hook_failed"
        /\ written \subseteq DOMAIN fs

\* C10 witness: the hook failed after files were written
C10_Witness ==
    /\ "hook_failed" \in Range(events)
    /\ written # {}
    /\ pc = "done"

\* C11: no run ends with the rendering session still open.
C11_BrowserClosedAtEnd ==
    Terminated => browser # "open"

\* C12: a run in which a directory creation or a file write failed still processes
\* every catalog language, launches nothing after the failure, invokes the hook and
\* ends Done.
C12_FileFailureIsolated ==
    (Terminated /\ "file_error" \in Range(events)) =>
        /\ pc = "done"
        /\ langIdx = NumLanguages
        /\ "hook" \in Range(events)
        /\ \A i, j \in 1..Len(events) :
               (events[i] = "file_error" /\ events[j] = "launch") => j < i

\* the position of the first occurrence of e in seq, 0 when there is none
FirstAt(seq, e) ==
    IF e \in Range(seq)
    THEN CHOOSE i \in 1..Len(seq) : seq[i] = e /\ \A j \in 1..(i-1) : seq[j] # e
    ELSE 0

\* the position of the last occurrence of e in seq, 0 when there is none
LastAt(seq, e) ==
    IF e \in Range(seq)
    THEN CHOOSE i \in 1..Len(seq) : seq[i] = e /\ \A j \in (i+1)..Len(seq) : seq[j] # e
    ELSE 0

\* C13: a run that ends Done has fetched the content after acquiring the identity,
\* has materialized every catalog language from the fetched details, and has then
\* invoked the hook exactly once, as its last stage.
C13_StageOrder ==
    pc = "done" =>
        /\ Len(identityBy) >= 1
        /\ details # << >>
        /\ langIdx = NumLanguages
        /\ LastAt(events, "questionContent") > 0
        /\ Count(events, "hook") = 1
        /\ LastAt(events, "questionContent") < FirstAt(events, "hook")
        /\ \A i \in 1..Len(events) :
               events[i] \in {"file_error", "read_failed"} => i < FirstAt(events, "hook")

\* C14: a path written in this run is reported Updated exactly when the file was
\* there before the write and Created exactly when it was not.
C14_UpdatedIffExisted ==
    \A path \in written :
        /\ path \in Range(result.updated) <=> path \in DOMAIN fsStart
        /\ path \in Range(result.created) <=> path \notin DOMAIN fsStart

\* the call of op has returned
Returned(op) == probe.op = op /\ probe.stage # "in"

\* the slug of a title with every hyphen turned into an underscore
Underscored(sl) == [k \in 1..Len(sl) |-> IF sl[k] = "-" THEN "_" ELSE sl[k]]

\* <languageKey>/<difficulty in lowercase>/<questionId>-<slug>.<extension>, and for
\* dart <questionId>_<underscored slug>.<extension>
PathRule(i, id, difficulty, title) ==
    LangKey(i) \o <<"/">> \o toLowerCase(difficulty) \o <<"/">> \o id
        \o ( IF LangKey(i) = <<"d","a","r","t">>
             THEN <<"_">> \o Underscored(toKebabCase(title))
             ELSE <<"-">> \o toKebabCase(title) )
        \o <<".">> \o LangExt(i)

\* C15: the target path of every catalog language and identity follows the path
\* rule, with the underscored name for dart, and for identity {42, Trapping Rain
\* Water, Hard} and python it is python/hard/42-trapping-rain-water.py.
C15_TargetPath ==
    Returned("filePath") =>
        /\ probe.out = PathRule(probe.lang, probe.id, probe.difficulty, probe.text)
        /\ ( /\ LangKey(probe.lang) = <<"p","y","t","h","o","n">>
             /\ probe.id = <<"4","2">>
             /\ probe.text = <<"T","r","a","p","p","i","n","g"," ","R","a","i","n"," ","W","a","t","e","r">>
             /\ probe.difficulty = <<"H","a","r","d">> )
           => probe.out = <<"p","y","t","h","o","n","/","h","a","r","d","/","4","2","-","t","r","a","p","p","i","n","g","-","r","a","i","n","-","w","a","t","e","r",".","p","y">>

\* C15 witness: the path of the dart file of Trapping Rain Water has been computed
C15_Witness ==
    /\ Returned("filePath")
    /\ probe.text = <<"T","r","a","p","p","i","n","g"," ","R","a","i","n"," ","W","a","t","e","r">>
    /\ probe.out = <<"d","a","r","t","/","h","a","r","d","/","4","2","_","t","r","a","p","p","i","n","g","_","r","a","i","n","_","w","a","t","e","r",".","d","a","r","t">>

\* the characters a slug may hold
SlugChars ==
    { "a","b","c","d","e","f","g","h","i","j","k","l","m","n","o","p","q","r","s",
      "t","u","v","w","x","y","z","0","1","2","3","4","5","6","7","8","9","-" }

\* C16: toKebabCase returns lowercase letters, digits and hyphens only, and
\* applied to its own result it returns that result.
C16_SlugifyIdempotent ==
    /\ Returned("toKebabCase") => Range(probe.out) \subseteq SlugChars
    /\ (probe.op = "toKebabCase" /\ probe.stage = "again") => probe.again = probe.out

\* C16 witness: a title with an upper-case letter, a blank and punctuation went
\* through toKebabCase twice
C16_Witness ==
    /\ probe.op = "toKebabCase"
    /\ probe.stage = "again"
    /\ probe.text = <<"A"," ","!">>
    /\ probe.out = <<"a","-">>

\* a run is under way
Running == pc \notin {"idle", "done", "fatal"}

\* C17: when every external call eventually returns or fails, a started run reaches
\* Done or Fatal; the exit code is 0 exactly in Done and 1 exactly in Fatal.
C17_EveryRunEnds ==
    /\ [](pc = "done" <=> exitCode = 0)
    /\ [](pc = "fatal" <=> exitCode = 1)
    /\ (Running ~> (pc \in {"done", "fatal"}))

\* C17 witness: a run ended Fatal with exit code 1 after its content fetch failed
C17_Witness ==
    /\ pc = "fatal"
    /\ exitCode = 1
    /\ identityBy = <<"api">>
    /\ details = << >>

\* the comment delimiters of a language: its own pair, or the pair of C
Delimiters(language) ==
    IF language = <<"p","y","t","h","o","n">> THEN << <<"\"","\"","\"">>, <<"\"","\"","\"">> >>
    ELSE IF language = <<"r","u","b","y">> THEN << <<"=","b","e","g","i","n">>, <<"=","e","n","d">> >>
    ELSE << <<"/","*">>, <<"*","/">> >>

\* C18: the file template is the start delimiter on its own line, the plain text of
\* the statement without blanks around it, the end delimiter on its own line, one
\* blank line, then the code as given; a language the catalog does not know gets
\* the delimiters of C.
C18_FileTemplate ==
    (Returned("FileManager_formatProblemFile") \/ Returned("formatProblemFile")) =>
        LET statement == htmlToText(probe.text)
        IN  /\ probe.out = Delimiters(probe.language)[1] \o NL \o statement \o NL
                               \o Delimiters(probe.language)[2] \o NL \o NL \o probe.code
            /\ statement # << >> =>
                   /\ statement[1] \notin WhiteSpace
                   /\ statement[Len(statement)] \notin WhiteSpace

\* C18 witness: the template of a language the catalog does not know, for a
\* statement with blanks around it and a one-line snippet
C18_Witness ==
    /\ Returned("FileManager_formatProblemFile")
    /\ probe.language = <<"e","r","l","a","n","g">>
    /\ probe.text = <<" ","a"," "," ">>
    /\ probe.out = <<"/","*","\n","a","\n","*","/","\n","\n","p","a","s","s">>

\* C19: for markup without the named entities whose every bracket is the bracket of
\* a tag, nested and malformed tags included, the plain text holds no bracket.
C19_NoTagBrackets ==
    Returned("htmlToText") =>
        /\ "<" \notin Range(probe.out)
        /\ ">" \notin Range(probe.out)

\* the line holds code, then the first opener of a block comment
CodeBeforeOpener(line) ==
    /\ line # << >>
    /\ line[1] \notin WhiteSpace \cup {"/", "#", "*", "=", "\""}
    /\ \E k \in 2..Len(line) :
           /\ MatchAt(line, k, BlockOpen)
           /\ \A j \in 1..(k - 1) : ~MatchAt(line, j, BlockOpen) /\ ~MatchAt(line, j, BlockClose)

\* the line holds the closer of a block comment, then code and no further comment
CodeAfterCloser(line) ==
    \E k \in 1..Len(line) :
        /\ MatchAt(line, k, BlockClose)
        /\ \E j \in (k + 2)..Len(line) : line[j] \notin WhiteSpace
        /\ \A j \in (k + 2)..Len(line) :
               ~MatchAt(line, j, BlockOpen) /\ ~MatchAt(line, j, <<"/", "/">>)

\* C20: a file whose first line holds code before a block-comment opener, or whose
\* block comment opened at the start of the first line is closed on a line that
\* holds code after the closer, is classified as having substantive content.
C20_CodeBesideCommentCounts ==
    Returned("hasNonCommentContent") =>
        LET lines == splitLines(probe.text)
        IN  ( \/ CodeBeforeOpener(lines[1])
              \/ /\ startsWith(lines[1], BlockOpen)
                 /\ \E i \in 1..Len(lines) :
                        /\ CodeAfterCloser(lines[i])
                        /\ \A h \in 1..(i - 1) : ~includes(lines[h], BlockClose) )
            => probe.flag

\* the anchor carries the marker of today's featured problem: a span whose class
\* holds the green background
Marked(a) == includes(a.spanClass, <<"b","g","-","g","r","e","e","n">>)

\* C21: when the rendered page has problem anchors and none of them carries the
\* marker, the browser fallback has extracted no slug.
C21_MarkerIsOnlySignal ==
    ( /\ rendered # << >>
      /\ Len(rendered[1]) > 0
      /\ \A i \in 1..Len(rendered[1]) : ~Marked(rendered[1][i]) )
    => slug = << >>

\* how many times e occurs in seq after position from
CountAfter(seq, from, e) == Cardinality({k \in (from + 1)..Len(seq) : seq[k] = e})

\* C22: in a run that has launched the browser, no content or snippet query is
\* issued while the browser session is open, and a run that ends Done has issued
\* each of the two exactly once since the launch.
C22_FallbackOnlyRecoversSlug ==
    FirstAt(events, "launch") > 0 =>
        LET launch == FirstAt(events, "launch")
        IN  /\ browser = "open" =>
                   /\ CountAfter(events, launch, "questionContent") = 0
                   /\ CountAfter(events, launch, "questionEditorData") = 0
            /\ pc = "done" =>
                   /\ CountAfter(events, launch, "questionContent") = 1
                   /\ CountAfter(events, launch, "questionEditorData") = 1

\* the answer to a query is a failure: a non-2xx answer or a timeout, or an answer
\* that carries an errors list
FailedAnswer(r) == r \in {"http_error", "errors_nodata", "errors_data"}

\* C23: when the join of the content and snippet queries settles and one of them
\* has failed, whatever the order of their completions, no details are built, the
\* run does not go on to materialize, and no file is touched.
C23_JoinFailsAsOne ==
    [][ ( /\ inflight # NoQueries
          /\ inflight' = NoQueries
          /\ \E q \in DOMAIN inflight : FailedAnswer(inflight[q]) )
        => ( /\ details' = details
             /\ pc' \notin {"files", "fn_files", "fn_csf_files"}
             /\ fs' = fs ) ]_vars

\* C24: a questionOfToday query whose answer is a failure yields no identity, and a
\* join in which some answer is a failure yields neither details nor an identity.
C24_FailedAnswerNeverUsed ==
    [][ /\ ( /\ events' = Append(events, "questionOfToday")
             /\ faults' = faults + 1 )
           => ( /\ dailyChallenge' = << >>
                /\ identityBy' = identityBy )
        /\ ( /\ inflight # NoQueries
             /\ inflight' = NoQueries
             /\ \E q \in DOMAIN inflight : inflight[q] \notin {"ok", "pending"} )
           => ( /\ details' = details
                /\ dailyChallenge' = dailyChallenge ) ]_vars

\* the target paths of the catalog languages for the problem the run works on
CatalogPaths == {TargetPath(i) : i \in LangIdx}

\* the paths the result of the run lists
ResultPaths == Range(result.created) \cup Range(result.updated) \cup Range(result.skipped)

\* how many entries the three lists of the result hold together
ResultTotal == Len(result.created) + Len(result.updated) + Len(result.skipped)

\* C25: only target paths of catalog languages are written or listed in the
\* result, no path is listed twice or in two lists, and once the materialization
\* is over without a failed file operation the lists hold one entry per catalog
\* language.
C25_OneAttemptPerCatalogEntry ==
    details # << >> =>
        /\ written \subseteq CatalogPaths
        /\ ResultPaths \subseteq CatalogPaths
        /\ ResultTotal = Cardinality(ResultPaths)
        /\ ( /\ pc \in {"hook", "fn_hook", "done"}
             /\ "file_error" \notin Range(events) )
           => ResultTotal = NumLanguages

\* C26: in the class-based script the browser fallback yields an identity only
\* together with the details the endpoint returned for the extracted slug; a run
\* in which the browser extracted a slug and the endpoint answered no query ends
\* Fatal with exit code 1, nothing written, and the browser session closed.
C26_FallbackNeedsEndpoint ==
    script = "cls" =>
        /\ "browser" \in Range(identityBy) =>
               /\ details # << >>
               /\ details[1].titleSlug = slug[1]
               /\ browser = "closed"
        /\ ( /\ Terminated
             /\ slug # << >>
             /\ "api" \notin Range(identityBy)
             /\ details = << >> )
           => /\ pc = "fatal"
              /\ exitCode = 1
              /\ written = {}
              /\ browser = "closed"

\* C26 witness: the questionOfToday query failed, the browser extracted today's slug,
\* the detail queries failed, and the run ended Fatal with the browser closed
C26_Witness ==
    /\ script = "cls"
    /\ pc = "fatal"
    /\ "questionOfToday" \in Range(events)
    /\ slug = <<today.titleSlug>>
    /\ Count(events, "questionContent") = 1
    /\ details = << >>
    /\ browser = "closed"

\* C27: an iteration in which the existing target file could not be read does not
\* list the path as skipped: it overwrites the file with the generated content and
\* lists the path as updated.
C27_UnreadableIsOverwritten ==
    [][ events' = Append(events, "read_failed") =>
            LET path == TargetPath(langIdx)
            IN  /\ path \in DOMAIN fs
                /\ path \notin Range(result'.skipped)
                /\ result'.updated = Append(result.updated, path)
                /\ result'.created = result.created
                /\ path \in written'
                /\ fs'[path] = Delimiters(LangKey(langIdx))[1] \o NL
                                 \o htmlToText(details[1].content) \o NL
                                 \o Delimiters(LangKey(langIdx))[2] \o NL \o NL
                                 \o snippetCode(details[1], LangKey(langIdx)) ]_vars

\* C27 witness: a file that held a solution when the run started could not be read,
\* was overwritten and is listed as updated
C27_Witness ==
    /\ script = "cls"
    /\ "read_failed" \in Range(events)
    /\ \E path \in DOMAIN fsStart :
          /\ fsStart[path] = SolutionFile
          /\ path \in Range(result.updated)
          /\ path \notin Range(result.skipped)
          /\ fs[path] # fsStart[path]

====
